---- MODULE Spec2Model ----
(***************************************************************************)
(* State-machine model of the simulation core of the Eviction platformer   *)
(* (src/game.js): the keydown/keyup handlers and the per-frame update().   *)
(*                                                                         *)
(* Lengths are integers in units of 1/Unit pixel.  GRAVITY is 0.5 px per   *)
(* tick and JUMP_VELOCITY is a whole number, so hero.vy and hero.y are     *)
(* always multiples of half a pixel and Unit = 2 represents them exactly.  *)
(* Times are integers in milliseconds (update(dt) receives seconds and     *)
(* multiplies by 1000 for the spawn timers).                               *)
(* draw(), updateUI() and asset loading write no simulation state and are  *)
(* not modelled.                                                           *)
(***************************************************************************)
EXTENDS Integers, Sequences, FiniteSets, TLC

\* ------------------------------------------------------------------ units
Unit == 2
Px(n) == n * Unit

\* ------------------------------------------------- game constants (l.14-21)
GRAVITY       == Unit \div 2      \* 0.5 px
JUMP_VELOCITY_Double == -Px(24)   \* a jump twice as strong
JUMP_VELOCITY == -Px(12)
WORLD_SPEED   == Px(3)
GROUND_HEIGHT == Px(80)
HERO_SIZE     == Px(80)
ENEMY_SIZE    == Px(80)
ITEM_SIZE     == Px(50)
LETTER_SIZE   == Px(20)
ENEMY_SPAWN_BASE    == 3500       \* ms
ENVELOPE_SPAWN_BASE == 2500       \* ms
HERO_X        == Px(100)          \* hero.x, never assigned after construction
LETTER_SPEED  == Px(8)            \* letter.speed
START_LIVES   == 3                \* hero.lives at construction

\* ------------------------------------------------------- model bounds
\* The canvas element belongs to the host page; the model fixes one size.
CanvasWidthPx  == 240
CanvasHeightPx == 320
\* Number of Alive ticks explored.
MaxTicks   == 100
\* Caps on the sizes of the three collections.
MaxEnemies   == 4
MaxEnvelopes == 4
MaxLetters   == 2
\* Rectangles handed to rectIntersect on its own.
MaxCoord == 2
MaxSide  == 2
\* Number of ticks explored with the frame times of SpawnFrames.
MaxSpawnTicks == 6

canvasWidth  == Px(CanvasWidthPx)
canvasHeight == Px(CanvasHeightPx)
\* const groundY = canvas.height - GROUND_HEIGHT - HERO_SIZE   (l.197, l.98)
groundY == canvasHeight - GROUND_HEIGHT - HERO_SIZE

\* ------------------------------------------------------- input domains
\* dt in ms: a 60 Hz frame, and a frame after the tab was in the background.
ShortFrames == {16}
LongFrames  == {5000}
\* The ticks (counted from 1) that may be long frames, and the ticks after
\* which a jump key or the fire key may be pressed (0: before the first tick).
LongFrameTicks == {1, 2, 3, 4}
JumpTicks      == {0, 20}
FireTicks      == {0, 6, 60}
\* Math.random() * 1000 (l.213) and Math.random() * 800 (l.220), in ms
EnemyJitterSet    == {0, 999}
EnvelopeJitterSet == {0, 799}
\* Math.random() * 600 (l.157), Math.random() * 400 (l.168), in px
EnemyOffsetSet    == {0, 3}
EnvelopeOffsetSet == {0}
\* Math.random() * 120 (l.171), in px
EnvelopeRiseSet   == {0, 119}
JumpCodes == {"Space", "ArrowUp"}
Codes == JumpCodes \cup {"KeyE"}

VARIABLES
  hero,                \* l.95-105
  cameraX,             \* l.106
  gameOver,            \* l.108
  enemies,             \* l.111
  envelopes,           \* l.112
  letters,             \* l.113
  enemySpawnTimer,     \* l.116
  envelopeSpawnTimer,  \* l.119
  keys,                \* l.124: the set of codes c with keys[c] = true
  stats,               \* history: how often each branch of update() was taken,
                       \* and the dt of the last Alive update()
  probe                \* a call of rectIntersect on its own: arguments, results

vars == <<hero, cameraX, gameOver, enemies, envelopes, letters,
          enemySpawnTimer, envelopeSpawnTimer, keys, stats, probe>>

\* The state after construction (l.95-124)
Construct ==
  /\ hero = [worldX |-> 0, x |-> HERO_X, y |-> groundY, vy |-> 0,
             onGround |-> TRUE, frameIndex |-> 0, frameTimer |-> 0,
             lives |-> START_LIVES, score |-> 0]
  /\ cameraX = 0
  /\ gameOver = FALSE
  /\ enemies = <<>>
  /\ envelopes = <<>>
  /\ letters = <<>>
  /\ enemySpawnTimer = 0
  /\ envelopeSpawnTimer = 0
  /\ keys = {}
  /\ stats = [hits |-> 0, kills |-> 0, pickups |-> 0,
              offEnemies |-> 0, offEnvelopes |-> 0, offLetters |-> 0,
              spawnedEnemies |-> 0, spawnedEnvelopes |-> 0,
              hitsWithLetter |-> 0, dt |-> 0]

Init == Construct /\ probe = <<>>

\* ------------------------------------------------------------- helpers
\* Array.prototype.splice(i, 1) on a 1-based sequence
Splice(s, i) == SubSeq(s, 1, i - 1) \o SubSeq(s, i + 1, Len(s))

\* The element of a one-element set.  The loops below bind each intermediate
\* loop state as { F(t) : t \in {e} }, so that e is evaluated once.
Only(S) == CHOOSE r \in S : TRUE

\* rectIntersect that counts touching edges as a collision
rectIntersect_Touching(aX, aY, aW, aH, bX, bY, bW, bH) ==
  /\ aX <= bX + bW
  /\ aX + aW >= bX
  /\ aY <= bY + bH
  /\ aY + aH >= bY

\* l.178-185
rectIntersect(aX, aY, aW, aH, bX, bY, bW, bH) ==
  /\ aX < bX + bW
  /\ aX + aW > bX
  /\ aY < bY + bH
  /\ aY + aH > bY

\* l.143-153
shootLetter ==
  letters' = Append(letters,
                    [x |-> hero.worldX + HERO_SIZE + Px(10),
                     y |-> hero.y + HERO_SIZE \div 2 - LETTER_SIZE \div 2,
                     width |-> LETTER_SIZE, height |-> LETTER_SIZE,
                     speed |-> LETTER_SPEED])

\* l.155-165: the enemy pushed by spawnEnemy() when Math.random()*600 = offset
spawnEnemy(cam, offset) ==
  [x |-> cam + canvasWidth + offset,
   y |-> canvasHeight - GROUND_HEIGHT - ENEMY_SIZE,
   width |-> ENEMY_SIZE, height |-> ENEMY_SIZE]

\* l.167-176
spawnEnvelope(cam, offset, rise) ==
  [x |-> cam + canvasWidth + offset,
   y |-> canvasHeight - GROUND_HEIGHT - ITEM_SIZE - rise,
   width |-> ITEM_SIZE, height |-> ITEM_SIZE]

\* ------------------------------------------------------- keyboard input
\* KeyDown with the fire branch not guarded by !gameOver
KeyDown_FiresWhenDefeated(code) ==
  /\ keys' = keys \cup {code}
  /\ IF ~gameOver /\ code \in {"Space", "ArrowUp"} /\ hero.onGround
       THEN hero' = [hero EXCEPT !.vy = JUMP_VELOCITY, !.onGround = FALSE]
       ELSE hero' = hero
  /\ IF code = "KeyE"
       THEN shootLetter
       ELSE letters' = letters
  /\ UNCHANGED <<cameraX, gameOver, enemies, envelopes,
                 enemySpawnTimer, envelopeSpawnTimer, stats, probe>>

\* KeyDown with the jump branch not guarded by hero.onGround
KeyDown_JumpsInTheAir(code) ==
  /\ keys' = keys \cup {code}
  /\ IF ~gameOver /\ code \in {"Space", "ArrowUp"}
       THEN hero' = [hero EXCEPT !.vy = JUMP_VELOCITY, !.onGround = FALSE]
       ELSE hero' = hero
  /\ IF ~gameOver /\ code = "KeyE"
       THEN shootLetter
       ELSE letters' = letters
  /\ UNCHANGED <<cameraX, gameOver, enemies, envelopes,
                 enemySpawnTimer, envelopeSpawnTimer, stats, probe>>

\* KeyDown with the fire branch gated by ground contact
KeyDown_FiresOnlyOnGround(code) ==
  /\ keys' = keys \cup {code}
  /\ IF ~gameOver /\ code \in {"Space", "ArrowUp"} /\ hero.onGround
       THEN hero' = [hero EXCEPT !.vy = JUMP_VELOCITY, !.onGround = FALSE]
       ELSE hero' = hero
  /\ IF ~gameOver /\ code = "KeyE" /\ hero.onGround
       THEN shootLetter
       ELSE letters' = letters
  /\ UNCHANGED <<cameraX, gameOver, enemies, envelopes,
                 enemySpawnTimer, envelopeSpawnTimer, stats, probe>>

\* l.125-138
KeyDown(code) ==
  /\ keys' = keys \cup {code}
  /\ IF ~gameOver /\ code \in {"Space", "ArrowUp"} /\ hero.onGround
       THEN hero' = [hero EXCEPT !.vy = JUMP_VELOCITY, !.onGround = FALSE]
       ELSE hero' = hero
  /\ IF ~gameOver /\ code = "KeyE"
       THEN shootLetter
       ELSE letters' = letters
  /\ UNCHANGED <<cameraX, gameOver, enemies, envelopes,
                 enemySpawnTimer, envelopeSpawnTimer, stats, probe>>

\* l.139-141
KeyUp(code) ==
  /\ keys' = keys \ {code}
  /\ UNCHANGED <<hero, cameraX, gameOver, enemies, envelopes, letters,
                 enemySpawnTimer, envelopeSpawnTimer, stats, probe>>

\* ------------------------------------------------------------ update()
\* l.245-257: the inner loop over letters, j downwards; the index of the
\* letter that hits the enemy (the first one found), 0 when none does
RECURSIVE LetterHit(_, _, _, _)
LetterHit(j, ls, enemy, cam) ==
  IF j < 1 THEN 0
  ELSE LET letter == ls[j]
           letterScreenX == letter.x - cam
           enemyScreenX == enemy.x - cam
       IN IF rectIntersect(letterScreenX, letter.y, letter.width, letter.height,
                           enemyScreenX, enemy.y, enemy.width, enemy.height)
            THEN j
            ELSE LetterHit(j - 1, ls, enemy, cam)

\* Damage that ends the game only once lives is below 0
Damage_DefeatedBelowZero(s) ==
  [s EXCEPT !.lives = @ - 1,
            !.hits = @ + 1,
            !.gameOver = IF s.lives - 1 < 0 THEN TRUE ELSE @]

\* Damage that forgets to take the life
Damage_KeepsLife(s) ==
  [s EXCEPT !.hits = @ + 1,
            !.gameOver = IF s.lives <= 0 THEN TRUE ELSE @]

\* l.238-242: hero.lives -= 1; if (hero.lives <= 0) gameOver = true
Damage(s) ==
  [s EXCEPT !.lives = @ - 1,
            !.hits = @ + 1,
            !.gameOver = IF s.lives - 1 <= 0 THEN TRUE ELSE @]

\* Eliminate that awards the points of a collectible
Eliminate_AwardsTen(s, i, j) ==
  [s EXCEPT !.enemies = Splice(s.enemies, i),
            !.letters = Splice(s.letters, j),
            !.score = @ + 10,
            !.kills = @ + 1]

\* Eliminate that leaves the letter in the collection
Eliminate_KeepsLetter(s, i, j) ==
  [s EXCEPT !.enemies = Splice(s.enemies, i),
            !.score = @ + 20,
            !.kills = @ + 1]

\* l.250-254: enemies.splice(i, 1); letters.splice(j, 1); hero.score += 20
Eliminate(s, i, j) ==
  [s EXCEPT !.enemies = Splice(s.enemies, i),
            !.letters = Splice(s.letters, j),
            !.score = @ + 20,
            !.kills = @ + 1]

\* EnemyStep that tests the letters before the hero
EnemyStep_LettersFirst(i, s, cam, heroY) ==
  LET enemy == s.enemies[i]
      enemyScreenX == enemy.x - cam
      j == LetterHit(Len(s.letters), s.letters, enemy, cam)
  IN IF enemy.x - cam + enemy.width < 0
       THEN [s EXCEPT !.enemies = Splice(s.enemies, i),
                      !.offEnemies = @ + 1]
     ELSE IF j > 0
       THEN Eliminate(s, i, j)
     ELSE IF rectIntersect(HERO_X, heroY, HERO_SIZE, HERO_SIZE,
                           enemyScreenX, enemy.y, enemy.width, enemy.height)
       THEN Damage([s EXCEPT !.enemies = Splice(s.enemies, i)])
     ELSE s

\* l.226-258: one iteration of the enemy loop at index i.  s carries the
\* values the loop body reads and writes.
EnemyStep(i, s, cam, heroY) ==
  LET enemy == s.enemies[i]
      enemyScreenX == enemy.x - cam
  IN IF enemy.x - cam + enemy.width < 0
       THEN [s EXCEPT !.enemies = Splice(s.enemies, i),
                      !.offEnemies = @ + 1]
     ELSE IF rectIntersect(HERO_X, heroY, HERO_SIZE, HERO_SIZE,
                           enemyScreenX, enemy.y, enemy.width, enemy.height)
       THEN Damage([s EXCEPT
                      !.enemies = Splice(s.enemies, i),
                      !.hitsWithLetter =
                         IF LetterHit(Len(s.letters), s.letters, enemy, cam) > 0
                           THEN @ + 1 ELSE @])
     ELSE LET j == LetterHit(Len(s.letters), s.letters, enemy, cam)
          IN IF j > 0 THEN Eliminate(s, i, j) ELSE s

\* l.226: for (let i = enemies.length - 1; i >= 0; i--)
RECURSIVE EnemyLoop(_, _, _, _)
EnemyLoop(i, s, cam, heroY) ==
  IF i < 1 THEN s
  ELSE Only({EnemyLoop(i - 1, t, cam, heroY) : t \in {EnemyStep(i, s, cam, heroY)}})

\* Collect that awards the hostile's 20 points
Collect_AwardsTwenty(s, i) ==
  [s EXCEPT !.envelopes = Splice(s.envelopes, i),
            !.score = @ + 20,
            !.pickups = @ + 1]

\* l.269-270: envelopes.splice(i, 1); hero.score += 10
Collect(s, i) ==
  [s EXCEPT !.envelopes = Splice(s.envelopes, i),
            !.score = @ + 10,
            !.pickups = @ + 1]

\* l.261-273: one iteration of the envelope loop
EnvelopeStep(i, s, cam, heroY) ==
  LET env == s.envelopes[i]
      envScreenX == env.x - cam
  IN IF env.x - cam + env.width < 0
       THEN [s EXCEPT !.envelopes = Splice(s.envelopes, i),
                      !.offEnvelopes = @ + 1]
     ELSE IF rectIntersect(HERO_X, heroY, HERO_SIZE, HERO_SIZE,
                           envScreenX, env.y, env.width, env.height)
       THEN Collect(s, i)
     ELSE s

RECURSIVE EnvelopeLoop(_, _, _, _)
EnvelopeLoop(i, s, cam, heroY) ==
  IF i < 1 THEN s
  ELSE Only({EnvelopeLoop(i - 1, t, cam, heroY) : t \in {EnvelopeStep(i, s, cam, heroY)}})

\* LetterStep that never removes a letter
LetterStep_NeverRemoves(i, s, cam) ==
  [s EXCEPT !.letters[i] = [s.letters[i] EXCEPT !.x = @ + s.letters[i].speed]]

\* l.276-283: one iteration of the letter loop
LetterStep(i, s, cam) ==
  LET moved == [s.letters[i] EXCEPT !.x = @ + s.letters[i].speed]
  IN IF moved.x - cam > canvasWidth + Px(50)
       THEN [s EXCEPT !.letters = Splice(s.letters, i),
                      !.offLetters = @ + 1]
       ELSE [s EXCEPT !.letters[i] = moved]

RECURSIVE LetterLoop(_, _, _)
LetterLoop(i, s, cam) ==
  IF i < 1 THEN s
  ELSE Only({LetterLoop(i - 1, t, cam) : t \in {LetterStep(i, s, cam)}})

\* l.191: cameraX += WORLD_SPEED
AdvanceCamera(c) == c + WORLD_SPEED

\* AdvanceHero that moves the player by the letter speed
AdvanceHero_WrongSpeed(h) == [h EXCEPT !.worldX = @ + LETTER_SPEED]

\* l.192: hero.worldX += WORLD_SPEED
AdvanceHero(h) == [h EXCEPT !.worldX = @ + WORLD_SPEED]

\* Physics that clamps with >= instead of >
Physics_ClampsOnTouch(h) ==
  LET vy1 == h.vy + GRAVITY
      y1  == h.y + vy1
  IN IF y1 >= groundY
       THEN [h EXCEPT !.y = groundY, !.vy = 0, !.onGround = TRUE]
       ELSE [h EXCEPT !.y = y1, !.vy = vy1]

\* Physics whose clamp keeps the falling velocity
Physics_ClampKeepsVelocity(h) ==
  LET vy1 == h.vy + GRAVITY
      y1  == h.y + vy1
  IN IF y1 > groundY
       THEN [h EXCEPT !.y = groundY, !.vy = vy1, !.onGround = TRUE]
       ELSE [h EXCEPT !.y = y1, !.vy = vy1]

\* Physics whose clamp leaves the player Airborne
Physics_ClampStaysAirborne(h) ==
  LET vy1 == h.vy + GRAVITY
      y1  == h.y + vy1
  IN IF y1 > groundY
       THEN [h EXCEPT !.y = groundY, !.vy = 0]
       ELSE [h EXCEPT !.y = y1, !.vy = vy1]

\* l.194-202: vertical physics; the hero record after the integration step
Physics(h) ==
  LET vy1 == h.vy + GRAVITY
      y1  == h.y + vy1
  IN IF y1 > groundY
       THEN [h EXCEPT !.y = groundY, !.vy = 0, !.onGround = TRUE]
       ELSE [h EXCEPT !.y = y1, !.vy = vy1]

\* l.204-209: run animation; 0.15 s = 150 ms
Animate(h, dt) ==
  LET ft == h.frameTimer + dt
  IN IF ft > 150
       THEN [h EXCEPT !.frameTimer = 0, !.frameIndex = (@ + 1) % 2]
       ELSE [h EXCEPT !.frameTimer = ft]

\* The enemy spawn test with twice the jitter
EnemySpawnDue_DoubleJitter(dt, jitter) ==
  enemySpawnTimer + dt > ENEMY_SPAWN_BASE + 2 * jitter

\* l.213, l.220: the spawn tests, with the value drawn for the jitter
EnemySpawnDue(dt, jitter) ==
  enemySpawnTimer + dt > ENEMY_SPAWN_BASE + jitter
EnvelopeSpawnDue(dt, jitter) ==
  envelopeSpawnTimer + dt > ENVELOPE_SPAWN_BASE + jitter

\* l.187-284 and the frame callback l.352-358: update(dt) with the values
\* Math.random() returns at l.213 (je), l.157 (xe), l.220 (jv), l.168 (xv)
\* and l.171 (rv)
Tick(dt, je, xe, jv, xv, rv) ==
  IF gameOver
    THEN UNCHANGED vars
    ELSE
      LET cam  == AdvanceCamera(cameraX)
          h1   == Animate(Physics(AdvanceHero(hero)), dt)
          spE  == EnemySpawnDue(dt, je)
          spV  == EnvelopeSpawnDue(dt, jv)
          es1  == IF spE THEN Append(enemies, spawnEnemy(cam, Px(xe)))
                         ELSE enemies
          vs1  == IF spV THEN Append(envelopes, spawnEnvelope(cam, Px(xv), Px(rv)))
                         ELSE envelopes
          s0   == [enemies |-> es1, envelopes |-> vs1, letters |-> letters,
                   lives |-> h1.lives, score |-> h1.score, gameOver |-> gameOver,
                   hits |-> stats.hits, kills |-> stats.kills,
                   pickups |-> stats.pickups,
                   offEnemies |-> stats.offEnemies,
                   offEnvelopes |-> stats.offEnvelopes,
                   offLetters |-> stats.offLetters,
                   hitsWithLetter |-> stats.hitsWithLetter]
      IN \E s1 \in {EnemyLoop(Len(es1), s0, cam, h1.y)} :
         \E s2 \in {EnvelopeLoop(Len(s1.envelopes), s1, cam, h1.y)} :
         \E s3 \in {LetterLoop(Len(s2.letters), s2, cam)} :
         /\ cameraX' = cam
         /\ hero' = [h1 EXCEPT !.lives = s3.lives, !.score = s3.score]
         /\ gameOver' = s3.gameOver
         /\ enemies' = s3.enemies
         /\ envelopes' = s3.envelopes
         /\ letters' = s3.letters
         /\ enemySpawnTimer' = IF spE THEN 0 ELSE enemySpawnTimer + dt
         /\ envelopeSpawnTimer' = IF spV THEN 0 ELSE envelopeSpawnTimer + dt
         /\ stats' = [hits |-> s3.hits, kills |-> s3.kills,
                      pickups |-> s3.pickups,
                      offEnemies |-> s3.offEnemies,
                      offEnvelopes |-> s3.offEnvelopes,
                      offLetters |-> s3.offLetters,
                      hitsWithLetter |-> s3.hitsWithLetter,
                      spawnedEnemies |-> stats.spawnedEnemies + (IF spE THEN 1 ELSE 0),
                      spawnedEnvelopes |-> stats.spawnedEnvelopes + (IF spV THEN 1 ELSE 0),
                      dt |-> dt]
         /\ UNCHANGED <<keys, probe>>

\* ------------------------------------------------------- specification
\* Number of Alive ticks executed so far
TickNo == cameraX \div WORLD_SPEED

\* The frame times offered to the next tick
FrameTimes ==
  IF TickNo + 1 \in LongFrameTicks THEN ShortFrames \cup LongFrames
                                   ELSE ShortFrames

\* One jitter value for each outcome of a spawn test
Outcomes(Due(_), S) ==
  {j \in S : \A k \in S : k < j => Due(k) # Due(j)}

\* Bounds of the exploration: at most MaxTicks Alive ticks, no spawn or shot
\* that would grow a collection beyond its cap, keys pressed one at a time
\* and released before the next frame.
TickBound(dt, je, jv) ==
  /\ TickNo < MaxTicks \/ gameOver
  /\ keys = {}
  /\ EnemySpawnDue(dt, je) => Len(enemies) < MaxEnemies
  /\ EnvelopeSpawnDue(dt, jv) => Len(envelopes) < MaxEnvelopes

KeyBound(code) ==
  /\ keys \subseteq {code}
  /\ gameOver \/
       /\ code \in JumpCodes => TickNo \in JumpTicks
       /\ code = "KeyE" => TickNo \in FireTicks /\ Len(letters) < MaxLetters

\* l.352-358: one animation frame; draw() and updateUI() write no state
gameLoop ==
  \E dt \in FrameTimes :
    \E je \in Outcomes(LAMBDA j : EnemySpawnDue(dt, j), EnemyJitterSet),
       jv \in Outcomes(LAMBDA j : EnvelopeSpawnDue(dt, j), EnvelopeJitterSet) :
    \E xe \in IF EnemySpawnDue(dt, je) THEN EnemyOffsetSet ELSE {0},
       xv \in IF EnvelopeSpawnDue(dt, jv) THEN EnvelopeOffsetSet ELSE {0},
       rv \in IF EnvelopeSpawnDue(dt, jv) THEN EnvelopeRiseSet ELSE {0} :
    TickBound(dt, je, jv) /\ Tick(dt, je, xe, jv, xv, rv)

Next ==
  \/ gameLoop
  \/ \E code \in Codes : KeyBound(code) /\ KeyDown(code)
  \/ \E code \in Codes : KeyUp(code)

Spec == Init /\ [][Next]_vars

\* ---- frames that keep coming ------------------------------------------
\* The frames of gameLoop with the smallest spawn offsets only, taken whether
\* or not a key is held (a held key does not stop the animation frames), and
\* jump keys as the only input.
LandingFrame ==
  \E dt \in FrameTimes :
    \E je \in Outcomes(LAMBDA j : EnemySpawnDue(dt, j), EnemyJitterSet),
       jv \in Outcomes(LAMBDA j : EnvelopeSpawnDue(dt, j), EnvelopeJitterSet) :
      /\ TickNo < MaxTicks \/ gameOver
      /\ EnemySpawnDue(dt, je) => Len(enemies) < MaxEnemies
      /\ EnvelopeSpawnDue(dt, jv) => Len(envelopes) < MaxEnvelopes
      /\ Tick(dt, je, 0, jv, 0, 0)

\* The number of ticks from a jump to the clamp that ends it: the jump
\* returns to the ground line, unclamped, one tick earlier
AirTicks == (2 * (-JUMP_VELOCITY)) \div GRAVITY

\* Jump keys go down after the ticks of JumpTicks and around the landing of
\* a jump from the start, one key at a time
LandingKeyBound(code) ==
  /\ keys \subseteq {code}
  /\ gameOver \/ TickNo \in JumpTicks \cup {AirTicks - 1, AirTicks}

LandingNext ==
  \/ LandingFrame
  \/ \E code \in JumpCodes : LandingKeyBound(code) /\ KeyDown(code)
  \/ \E code \in JumpCodes : KeyUp(code)

\* gameLoop() requests the next animation frame unconditionally (l.357), so
\* frames never stop coming.
LandingSpec == Init /\ [][LandingNext]_vars /\ WF_vars(LandingFrame)

\* ---- the spawn timers between base and base + jitter ------------------
\* Frames whose sums put the accumulators below, inside and above the
\* jitter windows (3500, 4500) and (2500, 3300), with no input
SpawnFrames == {16, 1400, 1800}

SpawnFrame ==
  \E dt \in SpawnFrames :
    \E je \in Outcomes(LAMBDA j : EnemySpawnDue(dt, j), EnemyJitterSet),
       jv \in Outcomes(LAMBDA j : EnvelopeSpawnDue(dt, j), EnvelopeJitterSet) :
    \E xe \in IF EnemySpawnDue(dt, je) THEN EnemyOffsetSet ELSE {0},
       xv \in IF EnvelopeSpawnDue(dt, jv) THEN EnvelopeOffsetSet ELSE {0},
       rv \in IF EnvelopeSpawnDue(dt, jv) THEN EnvelopeRiseSet ELSE {0} :
      /\ TickNo < MaxSpawnTicks
      /\ EnemySpawnDue(dt, je) => Len(enemies) < MaxEnemies
      /\ EnvelopeSpawnDue(dt, jv) => Len(envelopes) < MaxEnvelopes
      /\ Tick(dt, je, xe, jv, xv, rv)

SpawnNext == SpawnFrame

SpawnSpec == Init /\ [][SpawnNext]_vars

\* ---- jumps at any time --------------------------------------------------
\* The frames of LandingFrame, and a jump key tapped between any two frames
DodgeNext ==
  \/ keys = {} /\ LandingFrame
  \/ \E code \in JumpCodes : keys \subseteq {code} /\ KeyDown(code)
  \/ \E code \in JumpCodes : KeyUp(code)

DodgeSpec == Init /\ [][DodgeNext]_vars

\* ---- rectIntersect on its own ------------------------------------------
\* Rectangles with integer corners in -MaxCoord..MaxCoord and sides in
\* 1..MaxSide
Rects ==
  [x : -MaxCoord..MaxCoord, y : -MaxCoord..MaxCoord,
   width : 1..MaxSide, height : 1..MaxSide]

RectInit ==
  /\ Construct
  /\ probe \in [a : Rects, b : Rects, called : {FALSE},
                 result : {FALSE}, swapped : {FALSE}]

\* rectIntersect(a, b) and rectIntersect(b, a) for the rectangles drawn
RectCall ==
  /\ ~probe.called
  /\ probe' = [probe EXCEPT
                 !.called = TRUE,
                 !.result = rectIntersect(probe.a.x, probe.a.y,
                                          probe.a.width, probe.a.height,
                                          probe.b.x, probe.b.y,
                                          probe.b.width, probe.b.height),
                 !.swapped = rectIntersect(probe.b.x, probe.b.y,
                                           probe.b.width, probe.b.height,
                                           probe.a.x, probe.a.y,
                                           probe.a.width, probe.a.height)]
  /\ UNCHANGED <<hero, cameraX, gameOver, enemies, envelopes, letters,
                 enemySpawnTimer, envelopeSpawnTimer, keys, stats>>

RectNext == RectCall

RectSpec == RectInit /\ [][RectNext]_vars

\* =================================================================
\* Properties
\* =================================================================
\* A step of update() taken while Alive: only update() moves the camera
AliveTick == cameraX' # cameraX

\* The state the claims call player and entity state
playState == <<hero, cameraX, gameOver, enemies, envelopes, letters,
               enemySpawnTimer, envelopeSpawnTimer>>

\* C1: in every reachable state the player's lives counter is >= 0 and the
\* score is >= 0.
C1_LivesAndScoreNonNegative ==
  hero.lives >= 0 /\ hero.score >= 0

\* C2: Defeated is terminal: from a state with gameOver, every tick and every
\* key event leaves cameraX, hero.worldX, hero.y, hero.vy, hero.onGround,
\* lives, score, both spawn accumulators and the three collections unchanged,
\* and gameOver stays true.
C2_DefeatedIsTerminal ==
  [][gameOver =>
       /\ gameOver'
       /\ hero'.worldX = hero.worldX /\ hero'.y = hero.y /\ hero'.vy = hero.vy
       /\ hero'.onGround = hero.onGround
       /\ hero'.lives = hero.lives /\ hero'.score = hero.score
       /\ UNCHANGED <<cameraX, enemySpawnTimer, envelopeSpawnTimer,
                      enemies, envelopes, letters>>]_vars

\* C2 witness: the player is Defeated and a fire key event has been delivered
\* since (update() runs only with no key held, so the key went down after
\* the tick that set gameOver).
C2_Witness == gameOver /\ "KeyE" \in keys

\* C3: gameOver is false whenever lives > 0 and true as soon as lives is 0;
\* it is set only by a tick in which a hostile-player collision brings lives
\* from a positive value to 0 or below.
C3_DefeatedIffNoLives ==
  /\ [](gameOver <=> hero.lives <= 0)
  /\ [][gameOver' # gameOver =>
          /\ ~gameOver /\ gameOver'
          /\ AliveTick
          /\ stats'.hits > stats.hits
          /\ hero.lives > 0 /\ hero'.lives <= 0]_vars

\* C3 witness: the collision that brought lives to exactly 0 has happened
C3_Witness == gameOver /\ hero.lives = 0 /\ stats.hits = START_LIVES

\* C4: every Alive tick advances cameraX and hero.worldX by exactly 3 px, no
\* other step changes either, and hero.worldX - cameraX stays 0.
\* Whatever update() writes (animation, physics, timers, spawns, removals)
\* is written only together with that advance.
C4_CameraAndHeroInLockstep ==
  /\ [](hero.worldX - cameraX = 0)
  /\ [][(\/ cameraX' # cameraX
         \/ hero'.worldX # hero.worldX
         \/ hero'.frameTimer # hero.frameTimer
         \/ hero'.frameIndex # hero.frameIndex
         \/ hero'.y # hero.y
         \/ enemySpawnTimer' # enemySpawnTimer
         \/ envelopeSpawnTimer' # envelopeSpawnTimer
         \/ enemies' # enemies
         \/ envelopes' # envelopes
         \/ stats' # stats)
        => /\ ~gameOver
           /\ cameraX' = cameraX + Px(3)
           /\ hero'.worldX = hero.worldX + Px(3)]_vars

\* C4 witness: ticks have run, with a jump and a shot in between
C4_Witness ==
  cameraX >= Px(3) * 10 /\ ~hero.onGround /\ letters # <<>>

\* C5: hero.y never exceeds groundY; a tick clamps (y = groundY, vy = 0)
\* exactly when the integrated position is below the ground line, and
\* otherwise leaves y = y + vy + GRAVITY and vy = vy + GRAVITY.
C5_GroundClamp ==
  /\ [](hero.y <= canvasHeight - Px(80) - Px(80))
  /\ [][AliveTick =>
          LET vy1 == hero.vy + GRAVITY
              y1  == hero.y + vy1
          IN IF y1 > groundY
               THEN hero'.y = groundY /\ hero'.vy = 0
               ELSE hero'.y = y1 /\ hero'.vy = vy1 /\ hero'.y <= groundY]_vars

\* C5 witness: a falling player whose next integration step crosses the
\* ground line, with a tick still to come
C5_Witness ==
  /\ ~hero.onGround /\ hero.vy > 0
  /\ hero.y + hero.vy + GRAVITY > groundY
  /\ TickNo < MaxTicks /\ ~gameOver

\* ---- collision bookkeeping used by C7, C8 and C9 -------------------------
\* The screen rectangle of the player after this step
HitsPlayer(e, cam, heroY) ==
  rectIntersect(HERO_X, heroY, HERO_SIZE, HERO_SIZE,
                e.x - cam, e.y, e.width, e.height)
OffTrailingEdge(e, cam) == e.x - cam + e.width < 0
\* Differences of the history counters over a step
Delta(field) == stats'[field] - stats[field]

C7_HostileHitsPlayer ==
  [][AliveTick =>
       LET cam == cameraX'
           Hit == {i \in DOMAIN enemies :
                     /\ ~OffTrailingEdge(enemies[i], cam)
                     /\ HitsPlayer(enemies[i], cam, hero'.y)}
       IN /\ hero'.lives = hero.lives - Cardinality(Hit)
          /\ Delta("hits") = Cardinality(Hit)
          /\ \A j \in DOMAIN enemies' : ~HitsPlayer(enemies'[j], cam, hero'.y)
          /\ Len(enemies') = Len(enemies) + Delta("spawnedEnemies")
                               - Delta("offEnemies") - Cardinality(Hit)
                               - Delta("kills")
          /\ hero'.score = hero.score + 20 * Delta("kills")
                                      + 10 * Delta("pickups")]_vars

\* C7 witness: one hostile has hit the player, nothing else has scored
C7_Witness ==
  stats.hits = 1 /\ hero.lives = START_LIVES - 1 /\ hero.score = 0

\* C8: in a tick, hostiles and projectiles are eliminated in pairs, 20
\* points per pair: the hostiles removed by projectiles, the projectiles
\* removed by hostiles and the score gained from them all count the same
\* number; a pair is eliminated whenever a projectile overlaps a hostile
\* that is neither off the trailing edge nor overlapping the player; and no
\* hostile left in the collection overlaps a projectile left in it.
C8_ProjectileEliminatesHostile ==
  [][AliveTick =>
       LET cam == cameraX'
           k == Delta("kills")
           Open == {i \in DOMAIN enemies :
                      /\ ~OffTrailingEdge(enemies[i], cam)
                      /\ ~HitsPlayer(enemies[i], cam, hero'.y)}
           Shot(e, l) ==
             rectIntersect(l.x - cam, l.y, l.width, l.height,
                           e.x - cam, e.y, e.width, e.height)
       IN /\ k >= 0
          /\ Len(letters') = Len(letters) - k - Delta("offLetters")
          /\ Len(enemies') = Len(enemies) + Delta("spawnedEnemies")
                               - Delta("offEnemies") - Delta("hits") - k
          /\ hero'.score = hero.score + 20 * k + 10 * Delta("pickups")
          /\ (\E i \in Open, j \in DOMAIN letters :
                Shot(enemies[i], letters[j])) => k >= 1
          /\ \A i \in DOMAIN enemies', j \in DOMAIN letters' :
               ~Shot(enemies'[i],
                     [letters'[j] EXCEPT !.x = @ - letters'[j].speed])]_vars

\* C8 witness: one projectile has eliminated one hostile
C8_Witness ==
  stats.kills = 1 /\ hero.score = 20 /\ hero.lives = START_LIVES

\* C9: in a tick, every collectible that is not off the trailing edge and
\* overlaps the player is removed and adds exactly 10 to the score; lives
\* and gameOver change only by hostile-player collisions.
C9_CollectiblePickedUp ==
  [][AliveTick =>
       LET cam == cameraX'
           Picked == {i \in DOMAIN envelopes :
                        /\ ~OffTrailingEdge(envelopes[i], cam)
                        /\ HitsPlayer(envelopes[i], cam, hero'.y)}
       IN /\ Delta("pickups") = Cardinality(Picked)
          /\ hero'.score = hero.score + 10 * Cardinality(Picked)
                                      + 20 * Delta("kills")
          /\ \A j \in DOMAIN envelopes' :
               ~HitsPlayer(envelopes'[j], cam, hero'.y)
          /\ Len(envelopes') = Len(envelopes) + Delta("spawnedEnvelopes")
                                 - Delta("offEnvelopes") - Cardinality(Picked)
          /\ hero'.lives = hero.lives - Delta("hits")
          /\ Delta("hits") = 0 => gameOver' = gameOver]_vars

\* C9 witness: one collectible has been picked up, with no damage taken
C9_Witness ==
  stats.pickups = 1 /\ hero.score = 10 /\ hero.lives = START_LIVES

\* C10: a jump key pressed while Alive and Grounded sets hero.vy to
\* JUMP_VELOCITY (-12 px) and clears onGround, changing no other player or
\* entity state; pressed while Airborne or Defeated it changes none.
C10_JumpOnlyFromGround ==
  [][\A code \in JumpCodes :
       KeyDown(code) =>
         IF ~gameOver /\ hero.onGround
           THEN /\ hero' = [hero EXCEPT !.vy = -Px(12), !.onGround = FALSE]
                /\ UNCHANGED <<cameraX, gameOver, enemies, envelopes, letters,
                               enemySpawnTimer, envelopeSpawnTimer>>
           ELSE UNCHANGED playState]_vars

\* C10 witness: a jump has been accepted, and a jump key is pressed again
\* while the player is Airborne
C10_Witness ==
  /\ ~hero.onGround /\ hero.vy > JUMP_VELOCITY /\ hero.y < groundY
  /\ keys \cap JumpCodes # {}

\* C11: a jump accepted on the ground line is followed, as frames keep
\* coming and unless the player is Defeated first, by a state with
\* hero.y = groundY, hero.vy = 0 and onGround true.
C11_JumpLands ==
  (~gameOver /\ hero.y = groundY /\ hero.vy = JUMP_VELOCITY /\ ~hero.onGround)
    ~> (gameOver \/ (hero.y = groundY /\ hero.vy = 0 /\ hero.onGround))

\* C11 witness: the player is on the ground with a jump key held.  A jump
\* key that goes down on the ground starts a jump, so the key went down at
\* or after the start of a jump that has landed since.
C11_Witness ==
  /\ ~gameOver /\ keys \cap JumpCodes # {}
  /\ hero.onGround /\ hero.y = groundY /\ hero.vy = 0

\* C12: a fire key event while Alive appends exactly one projectile with
\* x = hero.worldX + 80 + 10 px, y = hero.y + 40 - 10 px and speed 8 px,
\* on the ground or in the air and with no cooldown, and changes no other
\* player or entity state; while Defeated it changes none.
C12_FireAppendsOneProjectile ==
  [][KeyDown("KeyE") =>
       IF ~gameOver
         THEN /\ Len(letters') = Len(letters) + 1
              /\ SubSeq(letters', 1, Len(letters)) = letters
              /\ LET letter == letters'[Len(letters')]
                 IN /\ letter.x = hero.worldX + Px(80) + Px(10)
                    /\ letter.y = hero.y + Px(40) - Px(10)
                    /\ letter.speed = Px(8)
              /\ UNCHANGED <<hero, cameraX, gameOver, enemies, envelopes,
                             enemySpawnTimer, envelopeSpawnTimer>>
         ELSE UNCHANGED playState]_vars

\* C12 witness: two projectiles fired between the same two ticks (they have
\* the same x) while the player is in the air
C12_Witness ==
  /\ Len(letters) = 2 /\ letters[1].x = letters[2].x
  /\ ~hero.onGround /\ hero.y < groundY /\ letters[1].y = letters[2].y
  /\ letters[1].x = hero.worldX + HERO_SIZE + Px(10)

\* ---- the reference predicate of C13 --------------------------------------
Min(m, n) == IF m < n THEN m ELSE n
Max(m, n) == IF m > n THEN m ELSE n
\* Length of the overlap of [p, p + v] and [q, q + w]; negative: a gap
OverlapLength(p, v, q, w) == Min(p + v, q + w) - Max(p, q)
OverlapX == OverlapLength(probe.a.x, probe.a.width, probe.b.x, probe.b.width)
OverlapY == OverlapLength(probe.a.y, probe.a.height, probe.b.y, probe.b.height)

\* C13: for rectangles with positive width and height rectIntersect is true
\* exactly when the overlap length is positive on both axes, false for
\* rectangles that only touch along an edge or at a corner, and the same
\* when the two rectangles are swapped.
C13_RectIntersectIsPositiveOverlap ==
  probe.called =>
    /\ probe.result <=> (OverlapX > 0 /\ OverlapY > 0)
    /\ (OverlapX = 0 /\ OverlapY >= 0) \/ (OverlapY = 0 /\ OverlapX >= 0)
         => ~probe.result
    /\ probe.swapped = probe.result

\* C13 witness: rectIntersect has been called on two rectangles that touch
\* along an edge
C13_Witness ==
  probe.called /\ OverlapX = 0 /\ OverlapY > 0

\* C14: a hostile that overlaps the player is resolved against the player
\* only, also when it overlaps a projectile.  In a tick without a spawn,
\* lives drops by one for each hostile that overlaps the player, the
\* hostiles eliminated by projectiles are at most those that overlap a
\* projectile and not the player, and when there are none of these no
\* projectile is consumed and no 20 points are awarded.
C14_PlayerCollisionFirst ==
  [][AliveTick /\ Delta("spawnedEnemies") = 0 =>
       LET cam == cameraX'
           Shot(e) ==
             \E j \in DOMAIN letters :
               rectIntersect(letters[j].x - cam, letters[j].y,
                             letters[j].width, letters[j].height,
                             e.x - cam, e.y, e.width, e.height)
           Live == {i \in DOMAIN enemies : ~OffTrailingEdge(enemies[i], cam)}
           Hit == {i \in Live : HitsPlayer(enemies[i], cam, hero'.y)}
           Both == {i \in Hit : Shot(enemies[i])}
           ShotOnly == {i \in Live \ Hit : Shot(enemies[i])}
       IN /\ Delta("hitsWithLetter") <= Cardinality(Both)
          /\ hero'.lives = hero.lives - Cardinality(Hit)
          /\ Len(enemies') <= Len(enemies) - Cardinality(Hit)
          /\ Delta("kills") <= Cardinality(ShotOnly)
          /\ ShotOnly = {} =>
               /\ Delta("hitsWithLetter") = Cardinality(Both)
               /\ Delta("kills") = 0
               /\ hero'.score = hero.score + 10 * Delta("pickups")
               /\ Len(letters') = Len(letters) - Delta("offLetters")
               /\ \A j \in DOMAIN letters :
                    LET moved == [letters[j] EXCEPT !.x = @ + letters[j].speed]
                    IN \/ \E k \in DOMAIN letters' : letters'[k] = moved
                       \/ moved.x - cam > canvasWidth + Px(50)]_vars

\* C14 witness: a hostile that overlapped a projectile has hit the player,
\* no projectile has eliminated or left anything, and the projectile is
\* still in the collection
C14_Witness ==
  /\ stats.hitsWithLetter = 1 /\ stats.hits = 1 /\ stats.kills = 0
  /\ stats.offLetters = 0
  /\ hero.lives = START_LIVES - 1 /\ hero.score = 0
  /\ letters # <<>>

\* C15: after a tick in which the integrated hero.y is >= groundY the player
\* is at groundY with hero.vy = 0 and onGround true, and no tick ends with
\* hero.y = groundY and onGround false.
C15_GroundedOnReachingGround ==
  [][AliveTick =>
       /\ hero.y + hero.vy + GRAVITY >= groundY
            => hero'.y = groundY /\ hero'.vy = 0 /\ hero'.onGround
       /\ ~(hero'.y = groundY /\ ~hero'.onGround)]_vars

\* C16: in an Alive tick each accumulator first grows by the elapsed ms;
\* a hostile (collectible) is spawned only if the accumulator then exceeds
\* 3500 (2500) ms and always if it is at least 4500 (3300) ms; a spawn adds
\* one entity at world x >= cameraX + canvas width, at the end of its
\* collection, and resets the accumulator to 0; without a spawn the
\* accumulator keeps the grown value and the collection grows by nothing.
C16_SpawningPolicy ==
  [][AliveTick =>
       LET cam == cameraX'
           accE == enemySpawnTimer + stats'.dt
           accV == envelopeSpawnTimer + stats'.dt
           gone(field) == Delta(field)
       IN /\ Delta("spawnedEnemies") \in {0, 1}
          /\ Delta("spawnedEnvelopes") \in {0, 1}
          /\ Delta("spawnedEnemies") = 1 => accE > 3500
          /\ Delta("spawnedEnvelopes") = 1 => accV > 2500
          /\ accE >= 3500 + 1000 => Delta("spawnedEnemies") = 1
          /\ accV >= 2500 + 800 => Delta("spawnedEnvelopes") = 1
          /\ enemySpawnTimer' =
               IF Delta("spawnedEnemies") = 1 THEN 0 ELSE accE
          /\ envelopeSpawnTimer' =
               IF Delta("spawnedEnvelopes") = 1 THEN 0 ELSE accV
          /\ Len(enemies') = Len(enemies) + Delta("spawnedEnemies")
                               - gone("offEnemies") - gone("hits")
                               - gone("kills")
          /\ Len(envelopes') = Len(envelopes) + Delta("spawnedEnvelopes")
                                 - gone("offEnvelopes") - gone("pickups")
          /\ Delta("spawnedEnemies") = 1 /\ gone("kills") = 0 =>
               enemies'[Len(enemies')].x >= cam + canvasWidth
          /\ Delta("spawnedEnvelopes") = 1 =>
               envelopes'[Len(envelopes')].x >= cam + canvasWidth]_vars

\* C16 witness: a tick has left the hostile accumulator inside its jitter
\* window without a spawn while it spawned a collectible from inside the
\* collectible window, with a tick still to come
C16_Witness ==
  /\ enemySpawnTimer > ENEMY_SPAWN_BASE
  /\ enemySpawnTimer < ENEMY_SPAWN_BASE + 1000
  /\ envelopeSpawnTimer = 0 /\ envelopes # <<>>
  /\ stats.dt < ENVELOPE_SPAWN_BASE + 800
  /\ TickNo < MaxSpawnTicks

\* C17: the three collections and the player's velocity and Grounded flag
\* change only inside update(): a key event records the action and leaves
\* them as they are until the next tick.
C17_InputOnlyRecorded ==
  [][~AliveTick =>
       /\ UNCHANGED <<enemies, envelopes, letters>>
       /\ hero'.vy = hero.vy
       /\ hero'.onGround = hero.onGround]_vars

C19_GroundedIsOnGroundLine ==
  /\ [](hero.onGround => hero.y = groundY /\ hero.vy = 0)
  /\ [][~hero.onGround /\ hero'.onGround =>
          /\ AliveTick
          /\ hero.y + hero.vy + GRAVITY > groundY]_vars
  /\ [][hero.onGround /\ ~hero'.onGround =>
          /\ ~AliveTick /\ ~gameOver
          /\ \E code \in JumpCodes : KeyDown(code)
          /\ hero'.vy = JUMP_VELOCITY /\ hero'.y = groundY]_vars

\* C19 witness: the player is Grounded again while a projectile fired from
\* the air during the jump is still flying
C19_Witness ==
  /\ hero.onGround /\ ~gameOver
  /\ \E i \in DOMAIN letters :
       letters[i].y < groundY + HERO_SIZE \div 2 - LETTER_SIZE \div 2

\* C20: the score never decreases and lives never increases; in every state
\* score = 20 * (hostiles eliminated by projectiles) + 10 * (collectibles
\* picked up) and lives = 3 - (hostile-player collisions); key events
\* change neither counter.
C20_ScoreAndLivesAccounting ==
  /\ [](/\ hero.score = 20 * stats.kills + 10 * stats.pickups
        /\ hero.lives = 3 - stats.hits)
  /\ [][hero'.score >= hero.score /\ hero'.lives <= hero.lives]_vars
  /\ [][~AliveTick =>
          hero'.score = hero.score /\ hero'.lives = hero.lives]_vars

\* C20 witness: a hostile has been eliminated, a collectible picked up and
\* the player hit, and a key is held
C20_Witness ==
  /\ stats.kills >= 1 /\ stats.pickups >= 1 /\ stats.hits >= 1
  /\ hero.score >= 30 /\ hero.lives < START_LIVES
  /\ keys # {}

====
